---------------------------- MODULE Spec2Model ----------------------------
(***************************************************************************)
(* Model of the profiling collector of src/src/profile.cpp:                *)
(* ProfilingCollector (a ring of NUM_SLOTS time buckets of Stats), the     *)
(* global list of collectors, and AutoBlockProfiler.                       *)
(*                                                                         *)
(* Times are microseconds, as returned by get_monotonic_us().  Collectors  *)
(* are identified by the numbers 1..MaxCollectors (their addresses).       *)
(***************************************************************************)
EXTENDS Integers, Sequences, FiniteSets

VARIABLES
    now,               \* the value get_monotonic_us() returns
    collectors,        \* ProfilingCollector::collectors: NULL, or the allocated
                       \* list of collectors
    live,              \* the collectors constructed and not yet destroyed
    slots,             \* slots[c][i]: Stats of slot i of collector c
    head_time_bucket,  \* head_time_bucket[c]
    this_iter,         \* this_iter[c]: the list node of c, or NoIter
    profilers,         \* profilers[p]: a live AutoBlockProfiler (collector and
                       \* start_time; history: the clock at its construction),
                       \* or NoProfiler
    returned,          \* the list the last get_collectors() call returned
    acc,               \* the last accumulate_stats() call and its result
    call,              \* the record_time call the last step made: its arguments,
                       \* and the time since the record_time call before it
    log,               \* history: log[c] lists the record_time calls on c since
                       \* its last reset: the clock, begin_time and duration
    last_record_at,    \* history: the clock at the last record_time call
    nrec,              \* history: the number of record_time calls made
    nreg,              \* history: the number of collectors constructed
    registered_at,     \* history: registered_at[c] = nreg when c was constructed
    assert_failed,     \* the assert() of record_time has been violated
    stats,             \* stats[k]: Stats objects outside any collector
    threads,           \* threads[t]: the call thread t is in the middle of: its
                       \* position and its local variables
    batch,             \* history: the collector as it was when no record_time
                       \* call was in progress, and the calls started since
    ub,                \* the undefined behaviour reached: accesses to freed
                       \* or null memory
    nalloc,            \* history: the number of lists allocated with new
    removed,           \* history: the collectors destroyed and not constructed
                       \* again
    key,               \* key[c]: the key member of collector c
    view,              \* the ProfilingDataViewModel: its stats map and its
                       \* duration_ms (history: the clock at its last update)
    dirty              \* history: a collector was constructed, destroyed,
                       \* recorded to or reset since the last update()

vars == << now, collectors, live, slots, head_time_bucket, this_iter,
           profilers, returned, acc, call, log, last_record_at, nrec, nreg,
           registered_at, assert_failed, stats, threads, batch, ub, nalloc,
           removed, key, view, dirty >>

----------------------------------------------------------------------------
(* Program constants.  profile.hpp declares them; the values are those of  *)
(* the documented scenario.                                                *)

NUM_SLOTS == 5

SLOT_DURATION_MS == 1000

\* SLOT_DURATION_MS * 1000: the width of a bucket in microseconds
BucketUs == SLOT_DURATION_MS * 1000

(* Bounds of the model. *)

MaxCollectors == 3

MaxBucket == 5

MaxRecords == 3

MaxLogged == 2

MaxHistBucket == 5

MaxProfilers == 2

MaxConstructs == 4

MaxRegRecords == 2

MaxRegBucket == 1

MaxResetCollectors == 2

MaxTimings == 3

MaxTimerBucket == 2

MaxThreads == 2

MaxSamples == 3

MaxThreadCalls == 2

MaxThreadBucket == 2

MaxThreadConstructs == 3

MaxFrameRecords == 2

MaxFrameSteps == 2

MaxViewConstructs == 2

MaxViewRecords == 1

MaxViewBucket == 1

Collectors == 1 .. MaxCollectors

Profilers == 1 .. MaxProfilers

Threads == 1 .. MaxThreads

\* three Stats objects: the operands a, b and c of Stats::operator+=
StatsObjects == {1, 2, 3}

\* duration arguments of Stats::record_time: none, and two that do not
\* average to a whole number
StatsDurations == {0, 10, 25}

Durations == {10, 20}

HalfBucketUs == BucketUs \div 2

MaxTime == MaxBucket * BucketUs + HalfBucketUs

ClockSteps == {HalfBucketUs, BucketUs}

\* window_duration_ms arguments: none, less than a slot, one slot, just under
\* three slots, and the 5s and 1m of the profiling window
Windows == {0, SLOT_DURATION_MS - 1, SLOT_DURATION_MS, 3 * SLOT_DURATION_MS - 1,
            5000, 60000}

\* begin_time arguments, relative to the clock: now, a microsecond earlier,
\* a bucket earlier, the oldest retained bucket, one older, and the future
BeginOffsets == {0, 0 - 1, 0 - BucketUs, 0 - (NUM_SLOTS - 1) * BucketUs,
                 0 - NUM_SLOTS * BucketUs, BucketUs}

\* collectors == NULL: no list is allocated
NULL == [allocated |-> FALSE, list |-> << >>]

\* collectors pointing to an allocated list
ListAt(list) == [allocated |-> TRUE, list |-> list]

NoIter == 0 - 1

NoProfiler == [collector |-> 0, start_time |-> 0, acquired_at |-> 0]

NoCall == [op |-> "none"]

\* a thread that is in no call
Idle == [pc |-> "idle"]

\* a thread stopped by an access to freed or null memory
Crashed == [pc |-> "crashed"]

\* What a build makes of an access to freed or null memory is undefined.
\* The outcomes followed here: the call returns with no further effect, or
\* the thread stops.  ub records that the access was made.
UBOutcomes == {Idle, Crashed}

\* the position collectors->end()
End == [collector |-> 0, registered |-> 0]

\* no record_time call has been started by a thread
NoBatch == [calls |-> << >>]

\* the key member of no collector
NoKey == << >>

\* the key a collector is constructed with: a std::string, as the sequence
\* of its characters ("k1", "k2", ...)
KeyArg(c) == << 107, 48 + c >>

\* ProfilingDataViewModel::ProfilingDataViewModel: an empty stats map, keyed
\* by the address of a collector, and duration_ms(5000)
NoView == [stats |-> [keys |-> {}, value |-> [c \in {} |-> 0]],
           duration_ms |-> 5000, updated_at |-> 0 - 1]

\* the durations of the radio buttons of ProfilingWindow that differ in the
\* slots they cover
ViewDurations == {5000, 15000}

\* the columns of the model
COLLECTOR_MODEL_COLUMN_NAME == "name"

COLLECTOR_MODEL_COLUMN_SAMPLES == "samples"

COLLECTOR_MODEL_COLUMN_MIN == "min"

COLLECTOR_MODEL_COLUMN_MAX == "max"

COLLECTOR_MODEL_COLUMN_AVG == "avg"

Columns == {COLLECTOR_MODEL_COLUMN_NAME, COLLECTOR_MODEL_COLUMN_SAMPLES,
            COLLECTOR_MODEL_COLUMN_MIN, COLLECTOR_MODEL_COLUMN_MAX,
            COLLECTOR_MODEL_COLUMN_AVG}

Min(a, b) == IF a < b THEN a ELSE b

----------------------------------------------------------------------------
(* ProfilingCollector::Stats *)

\* Stats::Stats(), Stats::reset()
ZeroStats == [min_time |-> 0, max_time |-> 0, total_time |-> 0, num_samples |-> 0]

NoAcc == [self |-> 0, window_duration_ms |-> 0, result |-> ZeroStats]

Stats_get_avg_time(s) ==
    IF s.num_samples > 0 THEN s.total_time \div s.num_samples ELSE 0

\* Stats::record_time without the addition to total_time
Stats_record_time_no_total(s, duration) ==
    IF s.num_samples = 0
    THEN [min_time |-> duration, max_time |-> duration,
          total_time |-> duration, num_samples |-> 1]
    ELSE [min_time    |-> IF s.min_time > duration THEN duration ELSE s.min_time,
          max_time    |-> IF s.max_time < duration THEN duration ELSE s.max_time,
          total_time  |-> s.total_time,
          num_samples |-> s.num_samples + 1]

Stats_record_time(s, duration) ==
    IF s.num_samples = 0
    THEN [min_time |-> duration, max_time |-> duration,
          total_time |-> duration, num_samples |-> 1]
    ELSE [min_time    |-> IF s.min_time > duration THEN duration ELSE s.min_time,
          max_time    |-> IF s.max_time < duration THEN duration ELSE s.max_time,
          total_time  |-> s.total_time + duration,
          num_samples |-> s.num_samples + 1]

\* operator+= taking the lesser min_time also when *this holds no sample
Stats_add_min_of_empty(s, rhs) ==
    IF rhs.num_samples > 0
    THEN [min_time    |-> IF s.min_time > rhs.min_time
                          THEN rhs.min_time ELSE s.min_time,
          max_time    |-> IF s.num_samples = 0 \/ s.max_time < rhs.max_time
                          THEN rhs.max_time ELSE s.max_time,
          total_time  |-> s.total_time + rhs.total_time,
          num_samples |-> s.num_samples + rhs.num_samples]
    ELSE s

\* operator+= without the addition to num_samples when *this holds samples
Stats_add_no_count(s, rhs) ==
    IF rhs.num_samples > 0
    THEN [min_time    |-> IF s.num_samples = 0 \/ s.min_time > rhs.min_time
                          THEN rhs.min_time ELSE s.min_time,
          max_time    |-> IF s.num_samples = 0 \/ s.max_time < rhs.max_time
                          THEN rhs.max_time ELSE s.max_time,
          total_time  |-> s.total_time + rhs.total_time,
          num_samples |-> IF s.num_samples = 0 THEN rhs.num_samples
                          ELSE s.num_samples]
    ELSE s

\* Stats::operator+=
Stats_add(s, rhs) ==
    IF rhs.num_samples > 0
    THEN [min_time    |-> IF s.num_samples = 0 \/ s.min_time > rhs.min_time
                          THEN rhs.min_time ELSE s.min_time,
          max_time    |-> IF s.num_samples = 0 \/ s.max_time < rhs.max_time
                          THEN rhs.max_time ELSE s.max_time,
          total_time  |-> s.total_time + rhs.total_time,
          num_samples |-> s.num_samples + rhs.num_samples]
    ELSE s

----------------------------------------------------------------------------
(* ProfilingCollector: the ring of slots *)

SlotIdx == 0 .. NUM_SLOTS - 1

\* the slots of a collector that is not constructed
NoSlots == [i \in SlotIdx |-> ZeroStats]

\* reset that leaves slot begin_idx as it is
reset_after_begin(sl, begin_idx, end_idx) ==
    [i \in SlotIdx |-> IF begin_idx < i /\ i < end_idx THEN ZeroStats ELSE sl[i]]

\* reset(begin_idx, end_idx)
reset(sl, begin_idx, end_idx) ==
    [i \in SlotIdx |-> IF begin_idx <= i /\ i < end_idx THEN ZeroStats ELSE sl[i]]

\* the move made by a loop copying upwards from slot 0, which reads slots
\* it has already overwritten
memmove_slots_forward(sl, shift_by, slots_to_keep) ==
    [i \in SlotIdx |-> IF shift_by <= i /\ i < shift_by + slots_to_keep
                       THEN sl[i % shift_by] ELSE sl[i]]

\* memmove(slots + shift_by, slots, sizeof(*slots) * slots_to_keep)
memmove_slots(sl, shift_by, slots_to_keep) ==
    [i \in SlotIdx |-> IF shift_by <= i /\ i < shift_by + slots_to_keep
                       THEN sl[i - shift_by] ELSE sl[i]]

\* shift_slots with the reset made only when slots are kept: a ring that is
\* stale as a whole is left as it is
shift_slots_stale(sl, head, now_time_bucket) ==
    IF now_time_bucket >= head /\ now_time_bucket - head < NUM_SLOTS
    THEN reset(memmove_slots(sl, now_time_bucket - head,
                             NUM_SLOTS - (now_time_bucket - head)),
               0, now_time_bucket - head)
    ELSE sl

\* The body of "if(now_time_bucket != head_time_bucket)" in record_time.
\* With now_time_bucket < head_time_bucket the unsigned shift_by wraps to a
\* value >= NUM_SLOTS (a build without assert() goes on with it).
shift_slots(sl, head, now_time_bucket) ==
    LET wrapped       == now_time_bucket < head
        slots_to_keep == IF ~wrapped /\ now_time_bucket - head < NUM_SLOTS
                         THEN NUM_SLOTS - (now_time_bucket - head) ELSE 0
        moved         == IF slots_to_keep > 0
                         THEN memmove_slots(sl, now_time_bucket - head, slots_to_keep)
                         ELSE sl
    IN  reset(moved, 0, NUM_SLOTS - slots_to_keep)

\* record_time, lines 107-124: bring the ring to the bucket of the clock
advance(st, now_us) ==
    LET now_time_bucket == now_us \div BucketUs
    IN  IF now_time_bucket # st.head
        THEN [slots  |-> shift_slots(st.slots, st.head, now_time_bucket),
              head   |-> now_time_bucket,
              failed |-> st.failed \/ ~(now_time_bucket > st.head)]
        ELSE st

\* the condition of line 128
in_retained_range(begin_time_bucket, head) ==
    begin_time_bucket <= head /\ (begin_time_bucket + NUM_SLOTS) > head

\* record_time with a sample older than the ring put into the oldest slot
record_time_clamped(st, now_us, begin_time, duration) ==
    LET adv               == advance(st, now_us)
        begin_time_bucket == begin_time \div BucketUs
    IN  IF begin_time_bucket <= adv.head
        THEN LET slot_idx == Min(adv.head - begin_time_bucket, NUM_SLOTS - 1)
             IN  [adv EXCEPT !.slots[slot_idx] = Stats_record_time(@, duration)]
        ELSE adv

\* record_time with every retained sample put into slot 0
record_time_at_head(st, now_us, begin_time, duration) ==
    LET adv               == advance(st, now_us)
        begin_time_bucket == begin_time \div BucketUs
    IN  IF in_retained_range(begin_time_bucket, adv.head)
        THEN [adv EXCEPT !.slots[0] = Stats_record_time(@, duration)]
        ELSE adv

\* record_time(begin_time, duration) on the state st = [slots, head, failed]
\* of one collector, with the clock at now_us
record_time(st, now_us, begin_time, duration) ==
    LET adv               == advance(st, now_us)
        begin_time_bucket == begin_time \div BucketUs
    IN  IF in_retained_range(begin_time_bucket, adv.head)
        THEN LET slot_idx == adv.head - begin_time_bucket
             IN  [adv EXCEPT !.slots[slot_idx] = Stats_record_time(@, duration)]
        ELSE adv

\* the loop of accumulate_stats: for(s = stats_begin; s != stats_end; ++s)
RECURSIVE accumulate_loop(_, _, _, _)
accumulate_loop(sl, s, stats_end, a) ==
    IF s = stats_end THEN a
    ELSE accumulate_loop(sl, s + 1, stats_end, Stats_add(a, sl[s]))

\* accumulate_stats with the loop started at slots, not slots + 1
accumulate_stats_from_head(sl, window_duration_ms) ==
    LET stats_begin == 0
        stats_end   == Min(stats_begin + (window_duration_ms \div SLOT_DURATION_MS),
                           NUM_SLOTS)
    IN  accumulate_loop(sl, stats_begin, stats_end, ZeroStats)

\* accumulate_stats with the number of slots rounded up
accumulate_stats_round_up(sl, window_duration_ms) ==
    LET stats_begin == 1
        stats_end   == Min(stats_begin + ((window_duration_ms + SLOT_DURATION_MS - 1)
                                            \div SLOT_DURATION_MS),
                           NUM_SLOTS)
    IN  accumulate_loop(sl, stats_begin, stats_end, ZeroStats)

\* accumulate_stats(window_duration_ms); positions are offsets from slots
accumulate_stats(sl, window_duration_ms) ==
    LET stats_begin == 1
        stats_end   == Min(stats_begin + (window_duration_ms \div SLOT_DURATION_MS),
                           NUM_SLOTS)
    IN  accumulate_loop(sl, stats_begin, stats_end, ZeroStats)

----------------------------------------------------------------------------
(* The list of collectors *)

\* collectors->emplace_back(this)
list_emplace_back(list, c) == Append(list, c)

\* erase of the first node, whatever the iterator
list_erase_front(list, iter) == Tail(list)

\* collectors->erase(this_iter): unlink the node this_iter denotes
list_erase(list, iter) == SelectSeq(list, LAMBDA node : node # iter)

\* the emptied list kept allocated
keep_if_empty(list) == ListAt(list)

\* lines 78-82: the list is deleted and collectors set to NULL when the
\* erase left it empty
delete_if_empty(list) == IF list = << >> THEN NULL ELSE ListAt(list)

\* a reference to the list in place of a copy of it
get_collectors_by_reference == [by_reference |-> TRUE, list |-> << >>]

\* get_collectors(): the list is returned by value
get_collectors ==
    IF collectors # NULL THEN [by_reference |-> FALSE, list |-> collectors.list]
    ELSE [by_reference |-> FALSE, list |-> << >>]

\* the sequence a caller finds in the list r it was given
ListContents(r) == IF r.by_reference THEN collectors.list ELSE r.list

\* the number of samples in the slots of the live collectors
SamplesHeld ==
    LET held == [c \in live |->
                   accumulate_loop(slots[c], 0, NUM_SLOTS, ZeroStats).num_samples]
        RECURSIVE Sum(_)
        Sum(S) == IF S = {} THEN 0
                  ELSE LET c == CHOOSE x \in S : TRUE IN held[c] + Sum(S \ {c})
    IN  Sum(live)

\* the collectors in the list
Registered == {collectors.list[i] : i \in 1 .. Len(collectors.list)}

\* the loop of reset_collectors left after the first collector
RECURSIVE reset_loop_first_only(_, _, _)
reset_loop_first_only(list, i, sl) ==
    IF i > Len(list) \/ i > 1 THEN sl
    ELSE reset_loop_first_only(list, i + 1,
                               [sl EXCEPT ![list[i]] = reset(@, 0, NUM_SLOTS)])

\* the loop of reset_collectors: (*c)->reset() for the nodes from position i
RECURSIVE reset_loop(_, _, _)
reset_loop(list, i, sl) ==
    IF i > Len(list) THEN sl
    ELSE reset_loop(list, i + 1, [sl EXCEPT ![list[i]] = reset(@, 0, NUM_SLOTS)])

reset_collectors(sl) ==
    IF collectors # NULL THEN reset_loop(collectors.list, 1, sl) ELSE sl

\* start_time - end_time in place of end_time - start_time
duration_of_swapped(end_time, start_time) == start_time - end_time

\* ~AutoBlockProfiler: end_time - start_time on uint64_t.  A negative value d
\* stands for the wrapped value 2^64 + d.
duration_of(end_time, start_time) == end_time - start_time

----------------------------------------------------------------------------
(* ProfilingDataViewModel *)

\* operator< of std::string: lexicographic order of the characters
string_less(a, b) ==
    \E i \in 1 .. Len(b) :
        /\ i - 1 <= Len(a)
        /\ \A j \in 1 .. i - 1 : a[j] = b[j]
        /\ (i > Len(a) \/ a[i] < b[i])

\* cmp_value<std::string>(a, b)
cmp_value_string(a, b) ==
    IF string_less(a, b) THEN 0 - 1
    ELSE IF string_less(b, a) THEN 1
    ELSE 0

\* cmp_value<T>(a, b) with T an unsigned integer type
cmp_value(a, b) ==
    IF a < b THEN 0 - 1
    ELSE IF a > b THEN 1
    ELSE 0

\* std::to_string of an unsigned integer: its decimal digits
RECURSIVE to_string(_)
to_string(n) ==
    IF n < 10 THEN << 48 + n >>
    ELSE to_string(n \div 10) \o << 48 + (n % 10) >>

\* the entry of collector c in the stats map st
stats_find(st, c) == IF c \in st.keys THEN st.value[c] ELSE ZeroStats

\* the loop of update(), lines 328-348: every collector of the list gets
\* its entry assigned, or added, with accumulate_stats(duration_ms); no
\* entry is removed
update_loop(st, list, sl, duration_ms) ==
    LET listed == {list[i] : i \in 1 .. Len(list)}
    IN  [keys  |-> st.keys \cup listed,
         value |-> [c \in st.keys \cup listed |->
                      IF c \in listed THEN accumulate_stats(sl[c], duration_ms)
                      ELSE st.value[c]]]

\* the values Compare(item1, item2, column) can return for the entries of
\* c1 and c2.  The name column reads the key through the pointer to the
\* collector: with a destroyed collector any value may come back.
Compare_results(st, c1, c2, column) ==
    LET s1 == stats_find(st, c1)
        s2 == stats_find(st, c2)
    IN  IF column = COLLECTOR_MODEL_COLUMN_NAME
        THEN IF c1 \in live /\ c2 \in live
             THEN {cmp_value_string(key[c1], key[c2])}
             ELSE {0 - 1, 0, 1}
        ELSE IF column = COLLECTOR_MODEL_COLUMN_SAMPLES
        THEN {cmp_value(s1.num_samples, s2.num_samples)}
        ELSE IF column = COLLECTOR_MODEL_COLUMN_MIN
        THEN {cmp_value(s1.min_time, s2.min_time)}
        ELSE IF column = COLLECTOR_MODEL_COLUMN_MAX
        THEN {cmp_value(s1.max_time, s2.max_time)}
        ELSE {cmp_value(Stats_get_avg_time(s1), Stats_get_avg_time(s2))}

\* the values GetValue(variant, item, col) can assign to variant for the
\* entry of c
GetValue_results(st, c, col) ==
    LET s == stats_find(st, c)
    IN  IF col = COLLECTOR_MODEL_COLUMN_NAME
        THEN IF c \in live THEN {key[c]} ELSE {NoKey, KeyArg(c)}
        ELSE IF col = COLLECTOR_MODEL_COLUMN_SAMPLES
        THEN {to_string(s.num_samples)}
        ELSE IF col = COLLECTOR_MODEL_COLUMN_MIN
        THEN {to_string(s.min_time)}
        ELSE IF col = COLLECTOR_MODEL_COLUMN_MAX
        THEN {to_string(s.max_time)}
        ELSE {to_string(Stats_get_avg_time(s))}

----------------------------------------------------------------------------
(* Operations *)

St(c) == [slots |-> slots[c], head |-> head_time_bucket[c], failed |-> assert_failed]

\* the state change of c->record_time(begin_time, duration)
RecordCall(c, begin_time, duration) ==
    LET st == record_time(St(c), now, begin_time, duration)
    IN  /\ slots' = [slots EXCEPT ![c] = st.slots]
        /\ head_time_bucket' = [head_time_bucket EXCEPT ![c] = st.head]
        /\ assert_failed' = st.failed
        /\ call' = [op |-> "record_time", self |-> c,
                    begin_time |-> begin_time, duration |-> duration,
                    gap |-> IF last_record_at[c] >= 0
                            THEN now - last_record_at[c] ELSE 0 - 1]
        /\ nrec' = nrec + 1
        /\ last_record_at' = [last_record_at EXCEPT ![c] = now]
        /\ acc' = NoAcc
        /\ dirty' = TRUE

\* the clock moves on
Tick(d) ==
    /\ now' = now + d
    /\ acc' = NoAcc
    /\ call' = NoCall
    /\ UNCHANGED << collectors, live, slots, head_time_bucket, this_iter,
                    profilers, returned, log, last_record_at, nrec, nreg, registered_at,
                    assert_failed,
                    stats, threads, batch, ub, nalloc, removed, key, view, dirty >>

\* ProfilingCollector::ProfilingCollector
Construct(c) ==
    /\ c \notin live
    /\ live' = live \cup {c}
    /\ head_time_bucket' = [head_time_bucket EXCEPT ![c] = 0]
    /\ slots' = [slots EXCEPT ![c] = reset([i \in SlotIdx |-> ZeroStats], 0, NUM_SLOTS)]
    /\ LET allocated == IF collectors = NULL THEN ListAt(<< >>) ELSE collectors
       IN  collectors' = ListAt(list_emplace_back(allocated.list, c))
    /\ this_iter' = [this_iter EXCEPT ![c] = c]
    /\ last_record_at' = [last_record_at EXCEPT ![c] = 0 - 1]
    /\ log' = [log EXCEPT ![c] = << >>]
    /\ acc' = NoAcc
    /\ call' = NoCall
    /\ nreg' = nreg + 1
    /\ registered_at' = [registered_at EXCEPT ![c] = nreg + 1]
    /\ nalloc' = IF collectors = NULL THEN nalloc + 1 ELSE nalloc
    /\ removed' = removed \ {c}
    /\ key' = [key EXCEPT ![c] = KeyArg(c)]
    /\ dirty' = TRUE
    /\ UNCHANGED << now, profilers, returned, nrec, assert_failed,
                    stats, threads, batch, ub, view >>

\* ProfilingCollector::~ProfilingCollector.  The members of the destroyed
\* object, and its history, are gone.
Destroy(c) ==
    /\ c \in live
    /\ live' = live \ {c}
    /\ LET erased == list_erase(collectors.list, this_iter[c])
       IN  collectors' = delete_if_empty(erased)
    /\ this_iter' = [this_iter EXCEPT ![c] = NoIter]
    /\ slots' = [slots EXCEPT ![c] = NoSlots]
    /\ head_time_bucket' = [head_time_bucket EXCEPT ![c] = 0]
    /\ last_record_at' = [last_record_at EXCEPT ![c] = 0 - 1]
    /\ log' = [log EXCEPT ![c] = << >>]
    /\ registered_at' = [registered_at EXCEPT ![c] = 0]
    /\ removed' = removed \cup {c}
    /\ key' = [key EXCEPT ![c] = NoKey]
    /\ dirty' = TRUE
    /\ UNCHANGED nalloc
    /\ acc' = NoAcc
    /\ call' = NoCall
    /\ UNCHANGED << now, profilers, returned, nrec, nreg, assert_failed,
                    stats, threads, batch, ub, view >>

\* a direct call of record_time
RecordTime(c, begin_time, duration) ==
    /\ c \in live
    /\ RecordCall(c, begin_time, duration)
    /\ UNCHANGED << now, collectors, live, this_iter, profilers, returned, log,
                    nreg, registered_at,
                    stats, threads, batch, ub, nalloc, removed, key, view >>

\* a direct call of record_time, with the call added to the history
RecordLogged(c, begin_time, duration) ==
    /\ c \in live
    /\ RecordCall(c, begin_time, duration)
    /\ log' = [log EXCEPT ![c] = Append(@, [at |-> now, begin_time |-> begin_time,
                                            duration |-> duration])]
    /\ UNCHANGED << now, collectors, live, this_iter, profilers, returned,
                    nreg, registered_at,
                    stats, threads, batch, ub, nalloc, removed, key, view >>

\* accumulate_stats that first brings the ring to the bucket of the clock
Accumulate_advancing(c, w) ==
    /\ c \in live
    /\ LET adv == advance(St(c), now)
       IN  /\ slots' = [slots EXCEPT ![c] = adv.slots]
           /\ head_time_bucket' = [head_time_bucket EXCEPT ![c] = adv.head]
           /\ assert_failed' = adv.failed
           /\ acc' = [self |-> c, window_duration_ms |-> w,
                      result |-> accumulate_stats(adv.slots, w)]
    /\ call' = NoCall
    /\ UNCHANGED << now, collectors, live, this_iter, profilers, returned,
                    log, last_record_at, nrec, nreg, registered_at, stats,
                    threads, batch, ub, nalloc, removed, key, view, dirty >>

\* accumulate_stats(window_duration_ms) on collector c
Accumulate(c, w) ==
    /\ c \in live
    /\ acc' = [self |-> c, window_duration_ms |-> w,
               result |-> accumulate_stats(slots[c], w)]
    /\ call' = NoCall
    /\ UNCHANGED << now, collectors, live, slots, head_time_bucket, this_iter,
                    profilers, returned, log, last_record_at, nrec, nreg, registered_at,
                    assert_failed,
                    stats, threads, batch, ub, nalloc, removed, key, view, dirty >>

\* ProfilingCollector::get_collectors
GetCollectors ==
    /\ returned' = get_collectors
    /\ acc' = NoAcc
    /\ call' = NoCall
    /\ UNCHANGED << now, collectors, live, slots, head_time_bucket, this_iter,
                    profilers, log, last_record_at, nrec, nreg, registered_at,
                    assert_failed,
                    stats, threads, batch, ub, nalloc, removed, key, view, dirty >>

\* ProfilingCollector::reset_collectors
ResetCollectors ==
    /\ slots' = reset_collectors(slots)
    /\ log' = [c \in Collectors |->
                 IF c \in Registered THEN << >> ELSE log[c]]
    /\ acc' = NoAcc
    /\ call' = [op |-> "reset_collectors", cleared |-> SamplesHeld]
    /\ UNCHANGED << now, collectors, live, head_time_bucket, this_iter,
                    profilers, returned, last_record_at, nrec, nreg, registered_at,
                    assert_failed,
                    stats, threads, batch, ub, nalloc, removed, key, view >>
    /\ dirty' = TRUE

\* AutoBlockProfiler::AutoBlockProfiler(collector)
Acquire(p, c) ==
    /\ profilers[p] = NoProfiler
    /\ c \in live
    /\ profilers' = [profilers EXCEPT ![p] = [collector |-> c, start_time |-> now,
                                              acquired_at |-> now]]
    /\ acc' = NoAcc
    /\ call' = NoCall
    /\ UNCHANGED << now, collectors, live, slots, head_time_bucket, this_iter,
                    returned, log, last_record_at, nrec, nreg, registered_at,
                    assert_failed,
                    stats, threads, batch, ub, nalloc, removed, key, view, dirty >>

\* AutoBlockProfiler::~AutoBlockProfiler
Release(p) ==
    /\ profilers[p] # NoProfiler
    /\ LET end_time == now
           duration == duration_of(end_time, profilers[p].start_time)
       IN  RecordCall(profilers[p].collector, profilers[p].start_time, duration)
    /\ profilers' = [profilers EXCEPT ![p] = NoProfiler]
    /\ UNCHANGED << now, collectors, live, this_iter, returned, log, nreg,
                    registered_at,
                    stats, threads, batch, ub, nalloc, removed, key, view >>

\* c->get_key()
GetKey(c) ==
    /\ c \in live
    /\ call' = [op |-> "get_key", self |-> c, result |-> key[c]]
    /\ acc' = NoAcc
    /\ UNCHANGED << now, collectors, live, slots, head_time_bucket,
                    this_iter, profilers, returned, log, last_record_at,
                    nrec, nreg, registered_at, assert_failed, stats, threads,
                    batch, ub, nalloc, removed, key, view, dirty >>

\* ProfilingDataViewModel::update(), with duration_ms the value the member
\* has when the loop runs.  History: whether no collector was modified since
\* the update() before, and the time since then.
UpdateCall(duration_ms) ==
    /\ returned' = get_collectors
    /\ view' = [stats       |-> update_loop(view.stats, get_collectors.list,
                                            slots, duration_ms),
                duration_ms |-> duration_ms,
                updated_at  |-> now]
    /\ call' = [op |-> "update", clean |-> ~dirty,
                gap |-> IF view.updated_at >= 0 THEN now - view.updated_at
                        ELSE 0 - 1]
    /\ dirty' = FALSE
    /\ acc' = NoAcc
    /\ UNCHANGED << now, collectors, live, slots, head_time_bucket,
                    this_iter, profilers, log, last_record_at, nrec, nreg,
                    registered_at, assert_failed, stats, threads, batch, ub,
                    nalloc, removed, key >>

\* ProfilingDataViewModel::update()
Update == UpdateCall(view.duration_ms)

\* ProfilingDataViewModel::update(duration_ms)
UpdateDuration(duration_ms) == UpdateCall(duration_ms)

\* ProfilingDataViewModel::Compare(item1, item2, column, ascending) on the
\* entries of c1 and c2.  The name column calls get_key() on the collectors
\* the entries point to.
Compare(c1, c2, column) ==
    /\ c1 \in view.stats.keys
    /\ c2 \in view.stats.keys
    /\ \E result \in Compare_results(view.stats, c1, c2, column) :
          call' = [op |-> "Compare", column |-> column, result |-> result]
    /\ ub' = IF column = COLLECTOR_MODEL_COLUMN_NAME /\ ~({c1, c2} \subseteq live)
             THEN ub \cup {"destroyed collector"}
             ELSE ub
    /\ acc' = NoAcc
    /\ UNCHANGED << now, collectors, live, slots, head_time_bucket,
                    this_iter, profilers, returned, log, last_record_at,
                    nrec, nreg, registered_at, assert_failed, stats, threads,
                    batch, nalloc, removed, key, view, dirty >>

\* ProfilingDataViewModel::GetValue(variant, item, col) on the entry of c
GetValue(c, col) ==
    /\ c \in view.stats.keys
    /\ \E variant \in GetValue_results(view.stats, c, col) :
          call' = [op |-> "GetValue", col |-> col, variant |-> variant]
    /\ ub' = IF col = COLLECTOR_MODEL_COLUMN_NAME /\ c \notin live
             THEN ub \cup {"destroyed collector"}
             ELSE ub
    /\ acc' = NoAcc
    /\ UNCHANGED << now, collectors, live, slots, head_time_bucket,
                    this_iter, profilers, returned, log, last_record_at,
                    nrec, nreg, registered_at, assert_failed, stats, threads,
                    batch, nalloc, removed, key, view, dirty >>

----------------------------------------------------------------------------
(* The ring of one collector: a collector constructed at time 0, the clock, *)
(* record_time, accumulate_stats and reset_collectors.                      *)

Init ==
    /\ now = 0
    /\ collectors = ListAt(<< 1 >>)
    /\ live = {1}
    /\ slots = [c \in Collectors |->
                  IF c = 1 THEN [i \in SlotIdx |-> ZeroStats] ELSE NoSlots]
    /\ head_time_bucket = [c \in Collectors |-> 0]
    /\ this_iter = [c \in Collectors |-> IF c = 1 THEN 1 ELSE NoIter]
    /\ profilers = [p \in Profilers |-> NoProfiler]
    /\ returned = [by_reference |-> FALSE, list |-> << >>]
    /\ acc = NoAcc
    /\ call = NoCall
    /\ log = [c \in Collectors |-> << >>]
    /\ last_record_at = [c \in Collectors |-> 0 - 1]
    /\ nrec = 0
    /\ nreg = 1
    /\ registered_at = [c \in Collectors |-> IF c = 1 THEN 1 ELSE 0]
    /\ assert_failed = FALSE
    /\ stats = [k \in StatsObjects |-> ZeroStats]
    /\ threads = [t \in Threads |-> Idle]
    /\ batch = NoBatch
    /\ ub = {}
    /\ nalloc = 1
    /\ removed = {}
    /\ key = [c \in Collectors |-> IF c = 1 THEN KeyArg(1) ELSE NoKey]
    /\ view = NoView
    /\ dirty = TRUE

Next ==
    \/ \E d \in ClockSteps : now + d <= MaxTime /\ Tick(d)
    \/ \E o \in BeginOffsets, d \in Durations :
          now + o >= 0 /\ nrec < MaxRecords /\ RecordTime(1, now + o, d)
    \/ \E w \in Windows : Accumulate(1, w)
    \/ ResetCollectors

Spec == Init /\ [][Next]_vars

----------------------------------------------------------------------------
(* The ring of one collector with the history of its record_time calls.     *)

\* begin_time arguments, relative to the clock: now, the last microsecond of
\* the bucket before, and a bucket in the future
HistOffsets == {0, 0 - 1, BucketUs}

NextHistory ==
    \/ now + BucketUs <= MaxHistBucket * BucketUs /\ Tick(BucketUs)
    \/ \E o \in HistOffsets, d \in Durations :
          now + o >= 0 /\ nrec < MaxLogged /\ RecordLogged(1, now + o, d)
    \/ \E w \in Windows : Accumulate(1, w)
    \/ ResetCollectors

SpecHistory == Init /\ [][NextHistory]_vars

----------------------------------------------------------------------------
(* The list of collectors: construction and destruction of collectors,      *)
(* get_collectors and reset_collectors.                                     *)

InitRegistry ==
    /\ now = 0
    /\ collectors = NULL
    /\ live = {}
    /\ slots = [c \in Collectors |-> NoSlots]
    /\ head_time_bucket = [c \in Collectors |-> 0]
    /\ this_iter = [c \in Collectors |-> NoIter]
    /\ profilers = [p \in Profilers |-> NoProfiler]
    /\ returned = [by_reference |-> FALSE, list |-> << >>]
    /\ acc = NoAcc
    /\ call = NoCall
    /\ log = [c \in Collectors |-> << >>]
    /\ last_record_at = [c \in Collectors |-> 0 - 1]
    /\ nrec = 0
    /\ nreg = 0
    /\ registered_at = [c \in Collectors |-> 0]
    /\ assert_failed = FALSE
    /\ stats = [k \in StatsObjects |-> ZeroStats]
    /\ threads = [t \in Threads |-> Idle]
    /\ batch = NoBatch
    /\ ub = {}
    /\ nalloc = 0
    /\ removed = {}
    /\ key = [c \in Collectors |-> NoKey]
    /\ view = NoView
    /\ dirty = TRUE

NextRegistry ==
    \/ \E c \in Collectors : nreg < MaxConstructs /\ Construct(c)
    \/ \E c \in Collectors : Destroy(c)
    \/ GetCollectors
    \/ ResetCollectors

SpecRegistry == InitRegistry /\ [][NextRegistry]_vars

----------------------------------------------------------------------------
(* reset_collectors on collectors that hold samples: some collectors        *)
(* constructed and destroyed, the clock, record_time and reset_collectors.  *)

ResetCollectorSet == 1 .. MaxResetCollectors

NextReset ==
    \/ \E c \in ResetCollectorSet : nreg <= MaxResetCollectors /\ Construct(c)
    \/ \E c \in ResetCollectorSet : Destroy(c)
    \/ ResetCollectors
    \/ now + BucketUs <= MaxRegBucket * BucketUs /\ Tick(BucketUs)
    \/ \E c \in ResetCollectorSet, o \in {0, 0 - BucketUs} :
          now + o >= 0 /\ nrec < MaxRegRecords /\ RecordTime(c, now + o, 10)

SpecReset == InitRegistry /\ [][NextReset]_vars

----------------------------------------------------------------------------
(* AutoBlockProfiler: profilers constructed and destroyed around blocks of  *)
(* code timed into one collector.                                           *)

NextTimer ==
    \/ \E d \in ClockSteps : now + d <= MaxTimerBucket * BucketUs /\ Tick(d)
    \/ \E p \in Profilers :
          /\ nrec + Cardinality({q \in Profilers : profilers[q] # NoProfiler})
                < MaxTimings
          /\ Acquire(p, 1)
    \/ \E p \in Profilers : Release(p)

SpecTimer == Init /\ [][NextTimer]_vars

----------------------------------------------------------------------------
(* record_time called by several threads on one collector.  The code takes  *)
(* no lock: a call is a sequence of steps, and the steps of the calls of    *)
(* different threads interleave.  The steps are the clock read (line 107),  *)
(* the test and the shift of the slots (lines 109-121), the assignment of   *)
(* head_time_bucket (line 123) and the placement of the sample (lines       *)
(* 126-132); the interleavings inside one of these steps are left out.      *)

\* begin_time arguments, relative to the clock: now and a bucket earlier
ThreadOffsets == {0, 0 - BucketUs}

\* line 107: thread t enters c->record_time(begin_time, duration) and reads
\* the clock
RT_ReadClock(t, c, begin_time, duration) ==
    /\ threads[t] = Idle
    /\ c \in live
    /\ threads' = [threads EXCEPT ![t] =
                      [pc |-> "test", self |-> c,
                       now_time_bucket |-> now \div BucketUs,
                       begin_time |-> begin_time, duration |-> duration]]
    /\ LET e == [now_us |-> now, begin_time |-> begin_time, duration |-> duration]
       IN  batch' = IF \A u \in Threads : threads[u] = Idle
                    THEN [calls |-> << e >>, self |-> c, slots |-> slots[c],
                          head |-> head_time_bucket[c]]
                    ELSE [batch EXCEPT !.calls = Append(@, e)]
    /\ nrec' = nrec + 1
    /\ acc' = NoAcc
    /\ call' = NoCall
    /\ UNCHANGED << now, collectors, live, slots, head_time_bucket, this_iter,
                    profilers, returned, log, last_record_at, nreg,
                    registered_at, assert_failed, stats, ub, nalloc, removed, key, view, dirty >>

\* lines 109-121: the test of head_time_bucket, the assert, the memmove and
\* the reset of the slots in front
RT_Shift(t) ==
    /\ threads[t] # Idle
    /\ threads[t].pc = "test"
    /\ LET c               == threads[t].self
           now_time_bucket == threads[t].now_time_bucket
       IN  IF now_time_bucket # head_time_bucket[c]
           THEN /\ assert_failed' =
                      (assert_failed \/ ~(now_time_bucket > head_time_bucket[c]))
                /\ slots' = [slots EXCEPT ![c] =
                                shift_slots(@, head_time_bucket[c], now_time_bucket)]
                /\ threads' = [threads EXCEPT ![t].pc = "set_head"]
           ELSE /\ threads' = [threads EXCEPT ![t].pc = "place"]
                /\ UNCHANGED << slots, assert_failed >>
    /\ acc' = NoAcc
    /\ call' = NoCall
    /\ UNCHANGED << now, collectors, live, head_time_bucket, this_iter,
                    profilers, returned, log, last_record_at, nrec, nreg,
                    registered_at, stats, batch, ub, nalloc, removed, key, view >>
    /\ dirty' = TRUE

\* line 123: head_time_bucket = now_time_bucket
RT_SetHead(t) ==
    /\ threads[t] # Idle
    /\ threads[t].pc = "set_head"
    /\ head_time_bucket' = [head_time_bucket EXCEPT ![threads[t].self] =
                               threads[t].now_time_bucket]
    /\ threads' = [threads EXCEPT ![t].pc = "place"]
    /\ acc' = NoAcc
    /\ call' = NoCall
    /\ UNCHANGED << now, collectors, live, slots, this_iter, profilers,
                    returned, log, last_record_at, nrec, nreg, registered_at,
                    assert_failed, stats, batch, ub, nalloc, removed, key, view, dirty >>

\* lines 126-132: the sample is put into its slot, or dropped, and the call
\* returns
RT_Place(t) ==
    /\ threads[t] # Idle
    /\ threads[t].pc = "place"
    /\ LET c                 == threads[t].self
           begin_time_bucket == threads[t].begin_time \div BucketUs
           slot_idx          == head_time_bucket[c] - begin_time_bucket
       IN  slots' = IF in_retained_range(begin_time_bucket, head_time_bucket[c])
                    THEN [slots EXCEPT ![c][slot_idx] =
                            Stats_record_time(@, threads[t].duration)]
                    ELSE slots
    /\ threads' = [threads EXCEPT ![t] = Idle]
    /\ last_record_at' = [last_record_at EXCEPT ![threads[t].self] = now]
    /\ acc' = NoAcc
    /\ call' = NoCall
    /\ UNCHANGED << now, collectors, live, head_time_bucket, this_iter,
                    profilers, returned, log, nrec, nreg, registered_at,
                    assert_failed, stats, batch, ub, nalloc, removed, key, view >>
    /\ dirty' = TRUE

NextThreads ==
    \/ now + BucketUs <= MaxThreadBucket * BucketUs /\ Tick(BucketUs)
    \/ \E t \in Threads, o \in ThreadOffsets, d \in Durations :
          now + o >= 0 /\ nrec < MaxThreadCalls /\ RT_ReadClock(t, 1, now + o, d)
    \/ \E t \in Threads : RT_Shift(t)
    \/ \E t \in Threads : RT_SetHead(t)
    \/ \E t \in Threads : RT_Place(t)

SpecThreads == Init /\ [][NextThreads]_vars

----------------------------------------------------------------------------
(* get_collectors and reset_collectors called by threads while collectors   *)
(* are constructed and destroyed.  The code takes no lock: the null test,   *)
(* the start of the walk and each turn of the loop are steps between which  *)
(* a constructor or a destructor can run as a whole.                        *)

\* the list a thread found at *collectors has been freed since
ListFreed(list_id) == collectors = NULL \/ nalloc # list_id

\* the position of the node of collector c in the list
NodeOf(c) == [collector |-> c, registered |-> registered_at[c]]

\* the node at position c is still linked into the list
NodeLinked(c) ==
    /\ c.collector \in live
    /\ registered_at[c.collector] = c.registered

\* collectors->begin()
list_begin == IF collectors.list = << >> THEN End ELSE NodeOf(collectors.list[1])

\* ++c on the position of a linked node
list_next(c) ==
    LET i == CHOOSE j \in 1 .. Len(collectors.list) :
                 collectors.list[j] = c.collector
    IN  IF i = Len(collectors.list) THEN End ELSE NodeOf(collectors.list[i + 1])

\* line 44: thread t enters reset_collectors() and tests collectors
RC_Test(t) ==
    /\ threads[t] = Idle
    /\ threads' = [threads EXCEPT ![t] =
                      IF collectors # NULL
                      THEN [pc |-> "rc_begin", list_id |-> nalloc]
                      ELSE Idle]
    /\ acc' = NoAcc
    /\ call' = NoCall
    /\ UNCHANGED << now, collectors, live, slots, head_time_bucket, this_iter,
                    profilers, returned, log, last_record_at, nrec, nreg,
                    registered_at, assert_failed, stats, batch, ub, nalloc,
                    removed, key, view, dirty >>

\* line 46: c = collectors->begin()
RC_Begin(t) ==
    /\ threads[t] # Idle
    /\ threads[t].pc = "rc_begin"
    /\ IF ListFreed(threads[t].list_id)
       THEN /\ ub' = ub \cup {"freed list"}
            /\ \E outcome \in UBOutcomes :
                  threads' = [threads EXCEPT ![t] = outcome]
       ELSE /\ threads' = [threads EXCEPT ![t] =
                             [pc |-> "rc_loop", list_id |-> threads[t].list_id,
                              c |-> list_begin]]
            /\ UNCHANGED ub
    /\ acc' = NoAcc
    /\ call' = NoCall
    /\ UNCHANGED << now, collectors, live, slots, head_time_bucket, this_iter,
                    profilers, returned, log, last_record_at, nrec, nreg,
                    registered_at, assert_failed, stats, batch, nalloc, removed, key, view, dirty >>

\* lines 46-49, one turn of the loop: c != collectors->end(), (*c)->reset()
\* and ++c
RC_Loop(t) ==
    /\ threads[t] # Idle
    /\ threads[t].pc = "rc_loop"
    /\ LET c == threads[t].c
       IN  IF ListFreed(threads[t].list_id)
           THEN /\ ub' = ub \cup {"freed list"}
                /\ \E outcome \in UBOutcomes :
                      threads' = [threads EXCEPT ![t] = outcome]
                /\ UNCHANGED << slots, log >>
           ELSE IF c = End
           THEN /\ threads' = [threads EXCEPT ![t] = Idle]
                /\ UNCHANGED << slots, log, ub >>
           ELSE IF NodeLinked(c)
           THEN /\ slots' = [slots EXCEPT ![c.collector] = reset(@, 0, NUM_SLOTS)]
                /\ log' = [log EXCEPT ![c.collector] = << >>]
                /\ threads' = [threads EXCEPT ![t].c = list_next(c)]
                /\ UNCHANGED ub
           ELSE /\ ub' = ub \cup {"freed node"}
                /\ \E outcome \in UBOutcomes :
                      threads' = [threads EXCEPT ![t] = outcome]
                /\ UNCHANGED << slots, log >>
    /\ acc' = NoAcc
    /\ call' = NoCall
    /\ UNCHANGED << now, collectors, live, head_time_bucket, this_iter,
                    profilers, returned, last_record_at, nrec, nreg,
                    registered_at, assert_failed, stats, batch, nalloc, removed, key, view >>
    /\ dirty' = TRUE

\* line 33, and line 38: thread t enters get_collectors() and tests
\* collectors; an empty list is returned when it is NULL
GC_Test(t) ==
    /\ threads[t] = Idle
    /\ IF collectors # NULL
       THEN /\ threads' = [threads EXCEPT ![t] =
                             [pc |-> "gc_copy", list_id |-> nalloc]]
            /\ UNCHANGED returned
       ELSE /\ returned' = get_collectors
            /\ UNCHANGED threads
    /\ acc' = NoAcc
    /\ call' = NoCall
    /\ UNCHANGED << now, collectors, live, slots, head_time_bucket, this_iter,
                    profilers, log, last_record_at, nrec, nreg, registered_at,
                    assert_failed, stats, batch, ub, nalloc, removed, key, view, dirty >>

\* line 35: return *collectors
GC_Copy(t) ==
    /\ threads[t] # Idle
    /\ threads[t].pc = "gc_copy"
    /\ IF ListFreed(threads[t].list_id)
       THEN /\ ub' = ub \cup {"freed list"}
            /\ \E outcome \in UBOutcomes :
                  threads' = [threads EXCEPT ![t] = outcome]
            /\ UNCHANGED returned
       ELSE /\ returned' = get_collectors
            /\ threads' = [threads EXCEPT ![t] = Idle]
            /\ UNCHANGED ub
    /\ acc' = NoAcc
    /\ call' = NoCall
    /\ UNCHANGED << now, collectors, live, slots, head_time_bucket, this_iter,
                    profilers, log, last_record_at, nrec, nreg, registered_at,
                    assert_failed, stats, batch, nalloc, removed, key, view, dirty >>

NextRegistryThreads ==
    \/ \E c \in ResetCollectorSet : nreg < MaxThreadConstructs /\ Construct(c)
    \/ \E c \in ResetCollectorSet : Destroy(c)
    \/ \E t \in Threads : RC_Test(t)
    \/ \E t \in Threads : RC_Begin(t)
    \/ \E t \in Threads : RC_Loop(t)
    \/ \E t \in Threads : GC_Test(t)
    \/ \E t \in Threads : GC_Copy(t)

SpecRegistryThreads == InitRegistry /\ [][NextRegistryThreads]_vars

----------------------------------------------------------------------------
(* The destructor run a second time on a collector.  this_iter of the       *)
(* object is then the position of a node that has been erased and freed.    *)

\* the lists a list can be left as by erase() on the position of a freed
\* node, whose stale links are written into its former neighbours: the list
\* as it is, or the list with one node cut off
erase_freed_node(list) ==
    {list} \cup {list_erase(list, list[i]) : i \in 1 .. Len(list)}

\* lines 76-82 on a collector that has been destroyed before
DestroyAgain(c) ==
    /\ c \in removed
    /\ IF collectors = NULL
       THEN /\ ub' = ub \cup {"null list"}
            /\ UNCHANGED collectors
       ELSE /\ ub' = ub \cup {"erase of freed node"}
            /\ \E erased \in erase_freed_node(collectors.list) :
                  collectors' = delete_if_empty(erased)
    /\ acc' = NoAcc
    /\ call' = [op |-> "destroy_again", self |-> c]
    /\ UNCHANGED << now, live, slots, head_time_bucket, this_iter, profilers,
                    returned, log, last_record_at, nrec, nreg, registered_at,
                    assert_failed, stats, threads, batch, nalloc, removed, key, view >>
    /\ dirty' = TRUE

NextMisuse ==
    \/ \E c \in Collectors : nreg < MaxConstructs /\ Construct(c)
    \/ \E c \in Collectors : Destroy(c)
    \/ \E c \in Collectors : DestroyAgain(c)
    \/ GetCollectors

SpecMisuse == InitRegistry /\ [][NextMisuse]_vars

----------------------------------------------------------------------------
(* Stats objects on their own: every Stats value is made from Stats() by    *)
(* record_time, operator+= and reset.                                       *)

\* stats[k].record_time(duration)
StatsRecord(k, duration) ==
    /\ stats' = [stats EXCEPT ![k] = Stats_record_time(@, duration)]
    /\ UNCHANGED << now, collectors, live, slots, head_time_bucket, this_iter,
                    profilers, returned, acc, call, log, last_record_at, nrec,
                    nreg, registered_at, assert_failed, threads, batch, ub,
                    nalloc, removed, key, view, dirty >>

\* stats[k] += stats[j]
StatsMerge(k, j) ==
    /\ stats' = [stats EXCEPT ![k] = Stats_add(@, stats[j])]
    /\ UNCHANGED << now, collectors, live, slots, head_time_bucket, this_iter,
                    profilers, returned, acc, call, log, last_record_at, nrec,
                    nreg, registered_at, assert_failed, threads, batch, ub,
                    nalloc, removed, key, view, dirty >>

\* stats[k].reset()
StatsReset(k) ==
    /\ stats' = [stats EXCEPT ![k] = ZeroStats]
    /\ UNCHANGED << now, collectors, live, slots, head_time_bucket, this_iter,
                    profilers, returned, acc, call, log, last_record_at, nrec,
                    nreg, registered_at, assert_failed, threads, batch, ub,
                    nalloc, removed, key, view, dirty >>

NextStats ==
    \/ \E k \in StatsObjects, d \in StatsDurations :
          stats[k].num_samples < MaxSamples /\ StatsRecord(k, d)
    \/ \E k, j \in StatsObjects :
          stats[k].num_samples + stats[j].num_samples <= MaxSamples /\ StatsMerge(k, j)
    \/ \E k \in StatsObjects : StatsReset(k)

SpecStats == Init /\ [][NextStats]_vars

----------------------------------------------------------------------------
(* The observers of the collectors: two collectors that are recorded to and *)
(* reset, the clock, and the calls that read: accumulate_stats, get_key,    *)
(* get_collectors and the update() of the view model.                       *)

\* two collectors: the one a call is made on, and another one
FrameCollectors == {1, 2}

\* the clock moves on by the time the ring spans
FrameStep == NUM_SLOTS * BucketUs

\* the windows of one slot and of all slots
FrameWindows == {SLOT_DURATION_MS, NUM_SLOTS * SLOT_DURATION_MS}

NextFrame ==
    \/ \E c \in FrameCollectors : Construct(c)
    \/ now + FrameStep <= MaxFrameSteps * FrameStep /\ Tick(FrameStep)
    \/ \E c \in FrameCollectors, o \in ThreadOffsets :
          now + o >= 0 /\ nrec < MaxFrameRecords /\ RecordTime(c, now + o, 10)
    \/ ResetCollectors
    \/ \E c \in FrameCollectors, w \in FrameWindows : Accumulate(c, w)
    \/ \E c \in FrameCollectors : GetKey(c)
    \/ GetCollectors
    \/ Update

SpecFrame == InitRegistry /\ [][NextFrame]_vars

----------------------------------------------------------------------------
(* The view model and the life of the collectors it lists: collectors       *)
(* constructed, recorded to and destroyed, update() and the calls the view  *)
(* makes on the entries.                                                    *)

NextView ==
    \/ \E c \in ResetCollectorSet : nreg < MaxViewConstructs /\ Construct(c)
    \/ \E c \in ResetCollectorSet : Destroy(c)
    \/ now + BucketUs <= MaxViewBucket * BucketUs /\ Tick(BucketUs)
    \/ \E c \in ResetCollectorSet :
          nrec < MaxViewRecords /\ RecordTime(c, now, 10)
    \/ Update
    \/ \E w \in ViewDurations : UpdateDuration(w)
    \/ \E c1, c2 \in ResetCollectorSet, column \in Columns : Compare(c1, c2, column)
    \/ \E c \in ResetCollectorSet, col \in Columns : GetValue(c, col)

SpecView == InitRegistry /\ [][NextView]_vars

----------------------------------------------------------------------------
(* Notions the properties are stated with *)

\* the sum of f[x] over the x in S
RECURSIVE SetSum(_, _)
SetSum(S, f) ==
    IF S = {} THEN 0
    ELSE LET x == CHOOSE y \in S : TRUE IN f[x] + SetSum(S \ {x}, f)

SetMin(S) == CHOOSE x \in S : \A y \in S : x <= y

SetMax(S) == CHOOSE x \in S : \A y \in S : x >= y

\* the summary of the slots with index in I: least min, greatest max and the
\* sums of the non-empty ones, all zero when there is none
MergeOf(sl, I) ==
    LET ne == {i \in I : sl[i].num_samples > 0}
        Total == [i \in I |-> sl[i].total_time]
        Count == [i \in I |-> sl[i].num_samples]
    IN  IF ne = {} THEN ZeroStats
        ELSE [min_time    |-> SetMin({sl[i].min_time : i \in ne}),
              max_time    |-> SetMax({sl[i].max_time : i \in ne}),
              total_time  |-> SetSum(ne, Total),
              num_samples |-> SetSum(ne, Count)]

\* the slot indices a window covers: 1 <= i < min(1 + w / SLOT_DURATION_MS, NUM_SLOTS)
WindowSlots(w) ==
    {i \in SlotIdx : 1 <= i /\ i < Min(1 + w \div SLOT_DURATION_MS, NUM_SLOTS)}

\* sample bucket b lies in [head - NUM_SLOTS + 1, head]
Retained(b, head) == head - NUM_SLOTS + 1 <= b /\ b <= head

NonEmpty(sl) == {i \in SlotIdx : sl[i].num_samples > 0}

\* the step is a record_time call
IsRecordStep == nrec' = nrec + 1

\* the Stats of one sample
Single(duration) ==
    [min_time |-> duration, max_time |-> duration,
     total_time |-> duration, num_samples |-> 1]

\* the last step was a record_time call on a collector whose record_time call
\* before it was made at least NUM_SLOTS * SLOT_DURATION_MS earlier
AfterStaleRecord ==
    /\ call.op = "record_time"
    /\ call.gap >= NUM_SLOTS * SLOT_DURATION_MS * 1000

----------------------------------------------------------------------------
(* C1: accumulate_stats(w) returns exactly the merge of the slots i with    *)
(* 1 <= i < min(1 + w / SLOT_DURATION_MS, NUM_SLOTS); slot 0 is never part  *)
(* of it.                                                                   *)
C1_AccumulateMergesWindow ==
    acc # NoAcc =>
        acc.result = MergeOf(slots[acc.self], WindowSlots(acc.window_duration_ms))

\* a call whose window covers some but not all non-empty slots, slot 0 non-empty
C1_Witness ==
    /\ acc # NoAcc
    /\ acc.result.num_samples > 0
    /\ 0 \in NonEmpty(slots[acc.self])
    /\ \E i \in NonEmpty(slots[acc.self]) :
          i >= 1 /\ i \notin WindowSlots(acc.window_duration_ms)

(* C2: a record_time call whose sample bucket lies outside                  *)
(* [head - NUM_SLOTS + 1, head], head being the bucket of the clock, writes *)
(* no slot: the slots are those the advance alone produces, no failure is   *)
(* raised, and accumulate_stats returns for every window what it returns    *)
(* without the call.                                                        *)
C2_OutOfRangeDropped ==
    [][(IsRecordStep
          /\ ~Retained(call'.begin_time \div BucketUs,
                       head_time_bucket'[call'.self]))
       => LET c   == call'.self
              adv == advance(St(c), now)
          IN  /\ slots'[c] = adv.slots
              /\ head_time_bucket'[c] = now \div BucketUs
              /\ assert_failed' = assert_failed
              /\ \A w \in Windows :
                    accumulate_stats(slots'[c], w) = accumulate_stats(adv.slots, w)]_vars

\* a sample one bucket too old was passed while the ring held samples
C2_Witness ==
    /\ call.op = "record_time"
    /\ call.begin_time \div BucketUs = head_time_bucket[call.self] - NUM_SLOTS
    /\ slots[call.self][NUM_SLOTS - 1].num_samples > 0

(* C6: accumulate_stats(w) with w < SLOT_DURATION_MS, 0 included, returns   *)
(* num_samples = 0 in every reachable state.                                *)
C6_SubSlotWindowEmpty ==
    (acc # NoAcc /\ acc.window_duration_ms < SLOT_DURATION_MS)
        => acc.result.num_samples = 0

\* such a call on a ring whose slots 0 and 1 hold samples
C6_Witness ==
    /\ acc # NoAcc
    /\ acc.window_duration_ms = SLOT_DURATION_MS - 1
    /\ {0, 1} \subseteq NonEmpty(slots[acc.self])

(* C4 as claimed: after a record_time call made at least                    *)
(* NUM_SLOTS * SLOT_DURATION_MS after the one before it, accumulate_stats   *)
(* returns num_samples = 0 for every window, whatever begin_time and        *)
(* duration the call was given.                                             *)
C4_Original ==
    AfterStaleRecord =>
        \A w \in Windows : accumulate_stats(slots[call.self], w).num_samples = 0

(* C4 amended: such a call clears everything recorded before it.  After it  *)
(* the ring holds nothing but the sample of the call itself, in slot        *)
(* head - sample bucket when that bucket is retained, and accumulate_stats  *)
(* returns that one sample for the windows covering its slot and            *)
(* num_samples = 0 for all others.                                          *)
C4_HistoryCleared ==
    AfterStaleRecord =>
        LET c    == call.self
            k    == head_time_bucket[c] - call.begin_time \div BucketUs
            kept == Retained(call.begin_time \div BucketUs, head_time_bucket[c])
        IN  /\ \A i \in SlotIdx :
                  slots[c][i] = IF kept /\ i = k THEN Single(call.duration)
                                ELSE ZeroStats
            /\ \A w \in Windows :
                  accumulate_stats(slots[c], w) =
                      IF kept /\ k \in WindowSlots(w) THEN Single(call.duration)
                      ELSE ZeroStats

\* such a call with a begin_time in the bucket before the clock's
C4_Witness ==
    /\ AfterStaleRecord
    /\ slots[call.self][1].num_samples = 1
    /\ accumulate_stats(slots[call.self], SLOT_DURATION_MS).num_samples = 1

----------------------------------------------------------------------------
(* The history of record_time calls *)

\* the bucket of the clock at the last record_time call on c
LastBucket(c) == last_record_at[c] \div BucketUs

BeginBucket(e) == e.begin_time \div BucketUs

\* the call e was made with its sample bucket in the range retained then
Accepted(e) == Retained(BeginBucket(e), e.at \div BucketUs)

\* the sample bucket of e is k buckets older than the bucket of the last
\* record_time call, 1 <= k < NUM_SLOTS, and w / SLOT_DURATION_MS >= k
Included(e, c, w) ==
    LET k == LastBucket(c) - BeginBucket(e)
    IN  1 <= k /\ k < NUM_SLOTS /\ w \div SLOT_DURATION_MS >= k

\* min, max, sum and number of the durations of the calls log[c][n], n in I
SummaryOf(c, I) ==
    IF I = {} THEN ZeroStats
    ELSE [min_time    |-> SetMin({log[c][n].duration : n \in I}),
          max_time    |-> SetMax({log[c][n].duration : n \in I}),
          total_time  |-> SetSum(I, [n \in I |-> log[c][n].duration]),
          num_samples |-> Cardinality(I)]

\* record(start = 0, duration = 10) at t = 0 and
\* record(start = 1000 ms, duration = 20) at t = 1000 ms
ScenarioLog ==
    << [at |-> 0, begin_time |-> 0, duration |-> 10],
       [at |-> 1000000, begin_time |-> 1000000, duration |-> 20] >>

(* C3: accumulate_stats(w) returns the summary of exactly the recorded      *)
(* samples whose bucket b is k buckets before the bucket of the last        *)
(* record_time call with 1 <= k < NUM_SLOTS and w / SLOT_DURATION_MS >= k;  *)
(* the samples of the bucket of that call (k = 0) are never part of it.     *)
(* With record(0, 10) at t = 0 and record(1000 ms, 20) at t = 1000 ms,      *)
(* accumulate_stats(5000) at t = 2000 ms returns min = max = avg = 10 and   *)
(* num_samples = 1.                                                         *)
C3_WindowOfCompletedBuckets ==
    acc # NoAcc =>
        LET c == acc.self
            w == acc.window_duration_ms
        IN  /\ acc.result =
                  SummaryOf(c, {n \in 1 .. Len(log[c]) :
                                  Accepted(log[c][n]) /\ Included(log[c][n], c, w)})
            /\ (log[c] = ScenarioLog /\ now = 2000000 /\ w = 5000)
                  => /\ acc.result = Single(10)
                     /\ Stats_get_avg_time(acc.result) = 10

\* the scenario: accumulate_stats(5000) at t = 2000 ms after the two calls
C3_Witness ==
    /\ acc # NoAcc
    /\ acc.window_duration_ms = 5000
    /\ log[acc.self] = ScenarioLog
    /\ now = 2000000
    /\ acc.result.num_samples = 1

\* the calls since c was last empty all have duration D and a begin_time in
\* one bucket, and the window w covers the slot of that bucket
UniformCovered(c, w) ==
    /\ Len(log[c]) >= 1
    /\ \A n \in 1 .. Len(log[c]) :
          /\ BeginBucket(log[c][n]) = BeginBucket(log[c][1])
          /\ log[c][n].duration = log[c][1].duration
    /\ (LastBucket(c) - BeginBucket(log[c][1])) \in WindowSlots(w)

\* min = max = avg = D and num_samples = N
AllOf(result, D, N) ==
    /\ result.min_time = D
    /\ result.max_time = D
    /\ Stats_get_avg_time(result) = D
    /\ result.num_samples = N

(* C5 as claimed: after N record_time calls of duration D with begin_time   *)
(* in one bucket on an empty collector, accumulate_stats over a window      *)
(* covering that bucket returns min = max = avg = D and num_samples = N.    *)
C5_Original ==
    (acc # NoAcc /\ UniformCovered(acc.self, acc.window_duration_ms))
        => AllOf(acc.result, log[acc.self][1].duration, Len(log[acc.self]))

(* C5 amended: the same, for calls none of which has its begin_time in a    *)
(* bucket after the bucket of the clock at the call.                        *)
C5_UniformSamples ==
    (/\ acc # NoAcc
     /\ UniformCovered(acc.self, acc.window_duration_ms)
     /\ \A n \in 1 .. Len(log[acc.self]) :
           BeginBucket(log[acc.self][n]) <= log[acc.self][n].at \div BucketUs)
        => AllOf(acc.result, log[acc.self][1].duration, Len(log[acc.self]))

\* two such calls, reported by a window covering their bucket
C5_Witness ==
    /\ acc # NoAcc
    /\ UniformCovered(acc.self, acc.window_duration_ms)
    /\ Len(log[acc.self]) >= 2
    /\ acc.result.num_samples = Len(log[acc.self])

----------------------------------------------------------------------------
(* The list of collectors *)

\* the position of x in the sequence l
Pos(l, x) == CHOOSE i \in 1 .. Len(l) : l[i] = x

Elements(l) == {l[i] : i \in 1 .. Len(l)}

(* C7: get_collectors() returns exactly the live collectors, each once, in  *)
(* the order of their construction; the destruction of a collector removes  *)
(* its entry alone and keeps the others in their order.                     *)
C7_ListOfLiveInOrder ==
    /\ [](LET l == get_collectors.list
          IN  /\ Elements(l) = live
              /\ Len(l) = Cardinality(live)
              /\ \A i, j \in 1 .. Len(l) :
                    i < j => registered_at[l[i]] < registered_at[l[j]])
    /\ [][\A c \in Collectors :
            (c \in live /\ c \notin live')
            => LET old == get_collectors.list
                   new == get_collectors'.list
               IN  /\ Elements(new) = Elements(old) \ {c}
                   /\ Len(new) = Len(old) - 1
                   /\ \A a, b \in Elements(new) :
                         Pos(old, a) < Pos(old, b) <=> Pos(new, a) < Pos(new, b)]_vars

\* three collectors were constructed and the second one destroyed
C7_Witness ==
    /\ Len(get_collectors.list) = 2
    /\ registered_at[get_collectors.list[1]] = 1
    /\ registered_at[get_collectors.list[2]] = 3
    /\ nreg = 3

(* C8: the list a get_collectors() call returned keeps its contents and     *)
(* their order when collectors are constructed or destroyed afterwards.     *)
C8_ReturnedListIsSnapshot ==
    [][live' # live => ListContents(returned)' = ListContents(returned)]_vars

\* a returned list of two collectors, one of them destroyed and another
\* constructed since
C8_Witness ==
    /\ Len(ListContents(returned)) = 2
    /\ Elements(ListContents(returned)) \ live # {}
    /\ live \ Elements(ListContents(returned)) # {}

(* C9: reset_collectors() sets every slot of every collector in the list to *)
(* the zero Stats, so that accumulate_stats returns num_samples = 0 for     *)
(* every window; it changes no head_time_bucket, not the list, and no other *)
(* collector.                                                               *)
C9_ResetAll ==
    [][call'.op = "reset_collectors"
       => /\ \A c \in Registered :
                /\ slots'[c] = [i \in SlotIdx |-> ZeroStats]
                /\ \A w \in Windows : accumulate_stats(slots'[c], w).num_samples = 0
          /\ \A c \in Collectors \ Registered : slots'[c] = slots[c]
          /\ Registered = live
          /\ UNCHANGED << head_time_bucket, collectors, live, this_iter, now,
                          assert_failed >>]_vars

\* a reset of two collectors that held samples, with the clock past bucket 0
C9_Witness ==
    /\ call.op = "reset_collectors"
    /\ call.cleared >= 2
    /\ Cardinality(live) >= 2
    /\ \E c \in live : head_time_bucket[c] >= 1

----------------------------------------------------------------------------
(* AutoBlockProfiler *)

\* profiler p is constructed, destroyed by the step
Acquired(p) == profilers[p] = NoProfiler /\ profilers'[p] # NoProfiler

Released(p) == profilers[p] # NoProfiler /\ profilers'[p] = NoProfiler

(* C10: the destruction of an AutoBlockProfiler makes one record_time call  *)
(* on its collector, with begin_time the clock at its construction and      *)
(* duration the clock at its destruction less that; the duration does not   *)
(* wrap; its construction makes no record_time call; and no record_time     *)
(* call is made otherwise.                                                  *)
C10_ReleaseRecordsOnce ==
    [][/\ \A p \in Profilers :
            Released(p)
            => /\ nrec' = nrec + 1
               /\ call'.op = "record_time"
               /\ call'.self = profilers[p].collector
               /\ call'.begin_time = profilers[p].acquired_at
               /\ call'.duration = now - profilers[p].acquired_at
               /\ call'.duration >= 0
       /\ \A p \in Profilers :
            Acquired(p)
            => /\ nrec' = nrec
               /\ call'.op # "record_time"
               /\ UNCHANGED << slots, head_time_bucket >>
       /\ nrec' # nrec
            => Cardinality({p \in Profilers : Released(p)}) = 1]_vars

\* a profiler destroyed in a later bucket than it was constructed in, while
\* another one is live
C10_Witness ==
    /\ call.op = "record_time"
    /\ call.duration >= BucketUs
    /\ call.begin_time > 0
    /\ \E p \in Profilers : profilers[p] # NoProfiler

----------------------------------------------------------------------------
(* Stats *)

\* the Stats values at hand, and the value of Stats()
Operands == {stats[k] : k \in StatsObjects} \cup {ZeroStats}

(* C11: operator+= is commutative and associative on the Stats values made  *)
(* by record_time and operator+=, and the Stats of no sample is its         *)
(* identity: a + b = b + a, (a + b) + c = a + (b + c), a + Stats() = a and  *)
(* Stats() + a = a.                                                         *)
C11_MergeCommutativeMonoid ==
    \A a, b, c \in Operands :
        /\ Stats_add(a, b) = Stats_add(b, a)
        /\ Stats_add(Stats_add(a, b), c) = Stats_add(a, Stats_add(b, c))
        /\ Stats_add(a, ZeroStats) = a
        /\ Stats_add(ZeroStats, a) = a

\* three different non-empty operands, one of them made by operator+=
C11_Witness ==
    /\ \A k \in StatsObjects : stats[k].num_samples > 0
    /\ stats[1].min_time < stats[2].min_time
    /\ stats[2].max_time < stats[3].max_time
    /\ stats[1].max_time < stats[3].max_time
    /\ stats[3].num_samples >= 2
    /\ stats[3].min_time < stats[3].max_time

(* C12: every Stats value made by record_time and operator+= that holds     *)
(* samples has min_time <= get_avg_time() <= max_time, get_avg_time() being *)
(* total_time / num_samples rounded down; get_avg_time() is 0 when it holds *)
(* none.                                                                    *)
C12_AverageBetweenMinAndMax ==
    \A k \in StatsObjects :
        /\ stats[k].num_samples > 0
              => /\ stats[k].min_time <= Stats_get_avg_time(stats[k])
                 /\ Stats_get_avg_time(stats[k]) <= stats[k].max_time
                 /\ Stats_get_avg_time(stats[k])
                       = stats[k].total_time \div stats[k].num_samples
        /\ stats[k].num_samples = 0 => Stats_get_avg_time(stats[k]) = 0

\* a merged value whose average is rounded down, lying strictly between
\* min_time and max_time, next to a value without samples
C12_Witness ==
    /\ stats[1].num_samples = 3
    /\ stats[1].total_time % stats[1].num_samples # 0
    /\ stats[1].min_time < Stats_get_avg_time(stats[1])
    /\ Stats_get_avg_time(stats[1]) < stats[1].max_time
    /\ stats[2].num_samples = 2
    /\ stats[3].num_samples = 0

----------------------------------------------------------------------------
(* Concurrent record_time calls *)

\* the states [slots, head, failed] of a collector after the calls
\* calls[n], n in I, made one after the other in some order from st
RECURSIVE SerialResults(_, _, _)
SerialResults(st, calls, I) ==
    IF I = {} THEN {st}
    ELSE UNION {SerialResults(record_time(st, calls[n].now_us, calls[n].begin_time,
                                          calls[n].duration),
                              calls, I \ {n}) : n \in I}

\* no thread is inside a call, and calls have been made
Quiescent == batch # NoBatch /\ \A t \in Threads : threads[t] = Idle

(* C13 as claimed: whenever the record_time calls threads made on one       *)
(* collector have all returned, its slots and head_time_bucket are those    *)
(* that some order of the same calls, made one after the other, produces.   *)
C13_Original ==
    Quiescent =>
        \E r \in SerialResults([slots |-> batch.slots, head |-> batch.head,
                                failed |-> FALSE],
                               batch.calls, 1 .. Len(batch.calls)) :
            /\ r.slots = slots[batch.self]
            /\ r.head = head_time_bucket[batch.self]

(* C19 as claimed: with a clock that never goes back, the assert of         *)
(* record_time holds every time a thread evaluates it, whatever steps of    *)
(* other threads come between its clock read and its test.                  *)
C19_Original == assert_failed = FALSE

----------------------------------------------------------------------------
(* get_collectors and reset_collectors next to constructors and destructors *)

(* C14 as claimed: whatever constructions and destructions of collectors    *)
(* come between the steps of a get_collectors or reset_collectors call of   *)
(* another thread, the call never reads a list that has been freed and      *)
(* never walks onto the node of a collector that has been destroyed: reset  *)
(* is called on live collectors only.                                       *)
C14_Original ==
    /\ "freed list" \notin ub
    /\ "freed node" \notin ub

----------------------------------------------------------------------------
(* The ring and the clock *)

(* C15 as claimed: whenever accumulate_stats looks at a collector, its      *)
(* head_time_bucket is the bucket of the clock, now / (SLOT_DURATION_MS *   *)
(* 1000), so that slot 0 is the bucket of the current time and slot i the   *)
(* bucket i before it, also when time has passed since the last             *)
(* record_time call.                                                        *)
C15_Original ==
    acc # NoAcc => head_time_bucket[acc.self] = now \div BucketUs

----------------------------------------------------------------------------
(* Destruction of a destroyed collector *)

(* C16 as claimed: the destructor run on a collector that is no longer in   *)
(* the list does nothing: the list is as before, and neither an erase       *)
(* through the position of a freed node nor a dereference of the NULL list  *)
(* pointer is made.                                                         *)
C16_Original ==
    [][call'.op = "destroy_again" => (collectors' = collectors /\ ub' = ub)]_vars

(* C17: a record_time call that finds the bucket of the clock shift buckets *)
(* after head_time_bucket, shift > 0, leaves every slot zero when           *)
(* shift >= NUM_SLOTS; otherwise slot i + shift holds what slot i held, for *)
(* i < NUM_SLOTS - shift, slots 0 .. shift - 1 are zero, and what slots     *)
(* NUM_SLOTS - shift and above held is gone.  With shift = 0 the slots are  *)
(* left as they were.  In each case head_time_bucket becomes the bucket of  *)
(* the clock, and the sample of the call is then put into the slots so      *)
(* arranged.                                                                *)
C17_AdvanceShifts ==
    [][IsRecordStep
       => LET c          == call'.self
              now_bucket == now \div BucketUs
              shift      == now_bucket - head_time_bucket[c]
              advanced   == [i \in SlotIdx |->
                               IF shift = 0 THEN slots[c][i]
                               ELSE IF shift >= NUM_SLOTS \/ i < shift THEN ZeroStats
                               ELSE slots[c][i - shift]]
              sample     == call'.begin_time \div BucketUs
          IN  /\ shift >= 0
              /\ head_time_bucket'[c] = now_bucket
              /\ \A i \in SlotIdx :
                    slots'[c][i] =
                        IF Retained(sample, now_bucket) /\ i = now_bucket - sample
                        THEN Stats_record_time(advanced[i], call'.duration)
                        ELSE advanced[i]]_vars

\* a call two buckets after the one before it, which moved the sample of
\* slot 0 to slot 2, zeroed slot 0 and put its own sample into slot 1
C17_Witness ==
    /\ call.op = "record_time"
    /\ call.gap = 2 * BucketUs
    /\ slots[call.self][2].num_samples > 0
    /\ slots[call.self][1].num_samples > 0
    /\ slots[call.self][0].num_samples = 0
    /\ head_time_bucket[call.self] = now \div BucketUs

(* C18: after any sequence of record_time and reset_collectors calls and    *)
(* clock advances made by one thread, slot i of a collector, for every i in *)
(* 0 .. NUM_SLOTS - 1, is the summary (min, max, sum and number of the      *)
(* durations) of exactly the samples accepted since the last reset whose    *)
(* begin_time lies in bucket head_time_bucket - i, all zero when there is   *)
(* none; and the slots together hold no more samples than record_time was   *)
(* called since that reset.                                                 *)
C18_SlotsSummariseAccepted ==
    \A c \in live :
        /\ \A i \in SlotIdx :
              slots[c][i] =
                  SummaryOf(c, {n \in 1 .. Len(log[c]) :
                                  /\ Accepted(log[c][n])
                                  /\ BeginBucket(log[c][n]) = head_time_bucket[c] - i})
        /\ SetSum(SlotIdx, [i \in SlotIdx |-> slots[c][i].num_samples]) <= Len(log[c])

\* two samples of different durations accepted into one bucket, which is
\* slot 1 after the clock went on by a bucket between the calls
C18_Witness ==
    /\ Len(log[1]) = 2
    /\ slots[1][1].num_samples = 2
    /\ slots[1][1].min_time < slots[1][1].max_time
    /\ head_time_bucket[1] >= 2

----------------------------------------------------------------------------
(* The life of the list *)

(* C20: with collectors constructed and destroyed by one thread, the list   *)
(* is allocated exactly when some collector is live.  The construction of a *)
(* collector when none is live allocates it, the destruction of the last    *)
(* live collector frees it and sets collectors to NULL, a later             *)
(* construction allocates a new one, and no list is allocated or freed      *)
(* otherwise.  While collectors is NULL get_collectors() returns an empty   *)
(* list and reset_collectors() changes nothing.                             *)
C20_ListAllocatedIffLive ==
    /\ [](/\ collectors # NULL <=> live # {}
          /\ collectors = NULL
                => /\ get_collectors.list = << >>
                   /\ reset_collectors(slots) = slots)
    /\ [][/\ (live = {} /\ live' # {})
                => (collectors = NULL /\ collectors' # NULL /\ nalloc' = nalloc + 1)
          /\ (live # {} /\ live' = {}) => (collectors # NULL /\ collectors' = NULL)
          /\ ~(live = {} /\ live' # {}) => nalloc' = nalloc]_vars

\* the list allocated a second time, after the destruction of the last
\* collector freed the first, and holding two collectors
C20_Witness ==
    /\ nalloc = 2
    /\ collectors # NULL
    /\ Cardinality(live) = 2
    /\ get_collectors.list # << >>

----------------------------------------------------------------------------
(* C21 *)

\* a step of a call that is meant to modify a collector or the list:
\* record_time, reset_collectors, a constructor or a destructor
IsModifyingStep ==
    \/ IsRecordStep
    \/ call'.op = "reset_collectors"
    \/ nreg' # nreg
    \/ live' # live

\* C21: accumulate_stats, get_key, get_collectors (and update(), which
\* calls them) change no slot, no head_time_bucket and not the list of
\* collectors, and neither does the passing of time: accumulate_stats does
\* not bring the ring to the clock.  An update() after an update() with the
\* same duration_ms and no collector modified between them stores the same
\* results, however far the clock has moved.  A record_time call changes,
\* beyond the shift to the bucket of the clock, at most the slot
\* head_time_bucket - begin_time_bucket of its own collector, and nothing of
\* any other collector or of the list.
C21_ObserversReadOnly ==
    [][ /\ ~IsModifyingStep =>
              /\ slots' = slots
              /\ head_time_bucket' = head_time_bucket
              /\ collectors' = collectors
        /\ (call'.op = "update" /\ call'.clean
                /\ view'.duration_ms = view.duration_ms) =>
              view'.stats = view.stats
        /\ IsRecordStep =>
              LET c   == call'.self
                  adv == advance(St(c), now)
                  idx == adv.head - (call'.begin_time \div BucketUs)
              IN  /\ \A d \in Collectors \ {c} :
                        /\ slots'[d] = slots[d]
                        /\ head_time_bucket'[d] = head_time_bucket[d]
                  /\ collectors' = collectors
                  /\ head_time_bucket'[c] = adv.head
                  /\ \A i \in SlotIdx : i # idx => slots'[c][i] = adv.slots[i]
      ]_vars

\* an update() that follows an update() a whole ring of time earlier, with
\* no collector modified between them, and stores samples of two collectors
C21_Witness ==
    /\ call.op = "update"
    /\ call.clean
    /\ call.gap >= NUM_SLOTS * BucketUs
    /\ Cardinality({c \in view.stats.keys : view.stats.value[c].num_samples > 0}) >= 2

----------------------------------------------------------------------------
(* C22 *)

\* C22: every key of the stats map of the view model is a collector that
\* is live, after any constructions, destructions and update() calls.
\* update() only assigns and adds entries (lines 322-348) and the
\* destructor (lines 74-83) does not know the view model: the entry of a
\* destroyed collector stays, and Compare and GetValue call get_key()
\* through it.
C22_Original == view.stats.keys \subseteq live

=============================================================================
